---- MODULE Spec2Model ----
(***************************************************************************)
(* ComputeLendingFHE (contracts/computeLendingFHE.sol): batches of         *)
(* encrypted submissions, folded into two accumulators per batch, and the  *)
(* decryption request / callback protocol that reveals a batch's totals.   *)
(*                                                                         *)
(* Every external function of the contract is one action, enabled when the *)
(* call returns.  A call that reverts changes nothing and emits nothing    *)
(* (EVM semantics), so it is no step; the error it reverts with is the     *)
(* value of the function's ...Error operator, "ok" when the call returns   *)
(* ("Panic" is the revert of checked uint256 arithmetic that overflows).   *)
(***************************************************************************)
EXTENDS Integers, Sequences, FiniteSets, TLC

\* ------------------------------------------------------------------ bounds
MaxBatch == 2        \* openBatch is called at most this many times
MaxRequests == 2     \* FHE.requestDecryption issues at most this many ids
MaxSubmissions == 2  \* successful submissions over all batches
MaxTime == 2         \* block.timestamp runs from 1 to MaxTime
WordBits == 5        \* width of an encrypted integer (euint32, scaled down)
MaxSteps == 8        \* state-changing calls plus clock ticks, over a whole run

Modulus == 2 ^ WordBits

\* type(uint256).max, scaled down with the word: sums above it revert (Panic 0x11)
UintMax == Modulus - 1

\* ------------------------------------------------------------- input sets
NullAddress == "0x0"
Callers == {"A", "B"}                 \* msg.sender is never the null address
Addresses == Callers \cup {NullAddress}
Deployer == "A"

BatchIds == 0 .. MaxBatch             \* batchId arguments
RequestIds == 0 .. MaxRequests        \* requestId arguments (MaxRequests is never issued)
CooldownChoices == {0, 1, UintMax}    \* arguments of setCooldownSeconds
\* plaintexts behind the encrypted inputs of a submission <<compute units, lend amount>>
Inputs == {<<10, 5>>, <<7, 3>>}
\* cleartexts a caller of the callback may supply besides the KMS's own
ClaimedCleartexts == {<<17, 8>>}

\* ---------------------------------------------------------------- state
VARIABLES
    owner,                            \* address
    isProvider,                       \* mapping(address => bool)
    paused,                           \* bool
    cooldownSeconds,                  \* uint256
    lastSubmissionTime,               \* mapping(address => uint256)
    lastDecryptionRequestTime,        \* mapping(address => uint256)
    currentBatchId,                   \* uint256
    isBatchOpen,                      \* mapping(uint256 => bool)
    batchTotalEncryptedComputeUnits,  \* mapping(uint256 => handle word)
    batchTotalEncryptedLendAmounts,   \* mapping(uint256 => handle word)
    decryptionContexts,               \* mapping(uint256 => DecryptionContext)
    now,                              \* block.timestamp
    counterRequest,                   \* the FHE library's request counter
    requestedHandles,                 \* the FHE library's record of each request's handles
    handleCount,                      \* ciphertexts created by FHE.add so far
    submissions,                      \* history: the submissions that returned, in order
    closedBatches,                    \* history: batches closed by closeBatch
    requestedWhenClosed,              \* history: requests taken on a batch closeBatch had closed
    completed,                        \* history: the DecryptionCompleted events, in order
    steps                             \* history: state-changing calls and clock ticks so far

storage == <<owner, isProvider, paused, cooldownSeconds, lastSubmissionTime,
             lastDecryptionRequestTime, currentBatchId, isBatchOpen,
             batchTotalEncryptedComputeUnits, batchTotalEncryptedLendAmounts,
             decryptionContexts>>
library == <<counterRequest, requestedHandles, handleCount>>
history == <<submissions, closedBatches, requestedWhenClosed, completed>>
vars == <<storage, library, history, now, steps>>

\* ------------------------------------------------- the FHE library (external)
\* A ciphertext handle: `id` stands for the 256-bit word (a hash), `val` for the
\* plaintext the coprocessor holds behind it.  The zero word is the
\* uninitialized handle, which every FHE operation reads as an encryption of 0.
ZeroHandle == [id |-> 0, val |-> 0]

Decrypt(h) == h.val

\* FHE.asEuint32(x): trivial encryption of the PLAINTEXT x
FHE_asEuint32(x) == [id |-> 0, val |-> x % Modulus]

\* FHE.add(a, b): a fresh handle whose plaintext is the sum modulo 2^width
FHE_add(a, b, id) == [id |-> id, val |-> (Decrypt(a) + Decrypt(b)) % Modulus]

\* the plaintext of an encrypted input whose handle is the given pair member
EncryptedInput(v) == [id |-> 0, val |-> v]

\* keccak256(abi.encode(cts, address(this))): injective on its arguments
hashCiphertexts(cts) == <<cts[1], cts[2], "this">>
ZeroHash == <<>>

EmptyContext == [batchId |-> 0, stateHash |-> ZeroHash, processed |-> FALSE]
NoHandles == <<>>

\* the decryption proof the KMS signs for an issued request: its signature
\* covers the request's handles and their true decryptions
KmsProof(rid) ==
    [signer |-> "kms", handles |-> requestedHandles[rid],
     cleartexts |-> <<Decrypt(requestedHandles[rid][1]), Decrypt(requestedHandles[rid][2])>>]
\* any other proof: whatever it claims to cover, the KMS has not signed it
ForgedProof == [signer |-> "forger", handles |-> NoHandles, cleartexts |-> <<>>]

\* FHE.checkSignatures(requestId, cleartexts, proof) does not revert
checkSignatures(rid, cleartexts, proof) ==
    /\ requestedHandles[rid] # NoHandles
    /\ proof.signer = "kms"
    /\ proof.handles = requestedHandles[rid]
    /\ proof.cleartexts = cleartexts

IssuedRequests == {r \in RequestIds : r < counterRequest}

\* ------------------------------------------------------------------ Init
Init ==
    /\ owner = Deployer
    /\ isProvider = [a \in Addresses |-> FALSE]
    /\ paused = FALSE
    /\ cooldownSeconds = 0
    /\ lastSubmissionTime = [a \in Addresses |-> 0]
    /\ lastDecryptionRequestTime = [a \in Addresses |-> 0]
    /\ currentBatchId = 0
    /\ isBatchOpen = [b \in BatchIds |-> FALSE]
    /\ batchTotalEncryptedComputeUnits = [b \in BatchIds |-> ZeroHandle]
    /\ batchTotalEncryptedLendAmounts = [b \in BatchIds |-> ZeroHandle]
    /\ decryptionContexts = [r \in RequestIds |-> EmptyContext]
    /\ now = 1
    /\ counterRequest = 0
    /\ requestedHandles = [r \in RequestIds |-> NoHandles]
    /\ handleCount = 0
    /\ submissions = <<>>
    /\ closedBatches = {}
    /\ requestedWhenClosed = {}
    /\ completed = <<>>
    /\ steps = 0

\* a call that returns, or a clock tick
Step ==
    /\ steps < MaxSteps
    /\ steps' = steps + 1

\* a call that returns and may have left the storage as it was
StepIf(changed) ==
    /\ steps < MaxSteps
    /\ steps' = IF changed THEN steps + 1 ELSE steps

\* ------------------------------------------------------ access control
\* the modifier comparing with the deployer instead of the stored owner
onlyOwnerDeployer(sender) == sender = Deployer

\* the modifier without its check
onlyOwnerUnchecked(sender) == TRUE

\* modifier onlyOwner
onlyOwner(sender) == sender = owner

transferOwnership(sender, newOwner) ==
    /\ onlyOwner(sender)
    /\ owner' = newOwner
    /\ StepIf(owner' # owner)
    /\ UNCHANGED <<isProvider, paused, cooldownSeconds, lastSubmissionTime,
                   lastDecryptionRequestTime, currentBatchId, isBatchOpen,
                   batchTotalEncryptedComputeUnits, batchTotalEncryptedLendAmounts,
                   decryptionContexts, library, history, now>>

\* addProvider emitting outside its if
addProviderEventsAlways(provider) == << [name |-> "ProviderAdded", provider |-> provider] >>

\* the events a returning addProvider(provider) emits (lines 77-80)
addProviderEvents(provider) ==
    IF ~isProvider[provider]
    THEN << [name |-> "ProviderAdded", provider |-> provider] >> ELSE << >>

\* the events a returning removeProvider(provider) emits (lines 84-87)
removeProviderEvents(provider) ==
    IF isProvider[provider]
    THEN << [name |-> "ProviderRemoved", provider |-> provider] >> ELSE << >>

addProvider(sender, provider) ==
    /\ onlyOwner(sender)
    /\ isProvider' = IF ~isProvider[provider]
                     THEN [isProvider EXCEPT ![provider] = TRUE] ELSE isProvider
    /\ StepIf(isProvider' # isProvider)
    /\ UNCHANGED <<owner, paused, cooldownSeconds, lastSubmissionTime,
                   lastDecryptionRequestTime, currentBatchId, isBatchOpen,
                   batchTotalEncryptedComputeUnits, batchTotalEncryptedLendAmounts,
                   decryptionContexts, library, history, now>>

removeProvider(sender, provider) ==
    /\ onlyOwner(sender)
    /\ isProvider' = IF isProvider[provider]
                     THEN [isProvider EXCEPT ![provider] = FALSE] ELSE isProvider
    /\ StepIf(isProvider' # isProvider)
    /\ UNCHANGED <<owner, paused, cooldownSeconds, lastSubmissionTime,
                   lastDecryptionRequestTime, currentBatchId, isBatchOpen,
                   batchTotalEncryptedComputeUnits, batchTotalEncryptedLendAmounts,
                   decryptionContexts, library, history, now>>

setPaused(sender, newPaused) ==
    /\ onlyOwner(sender)
    /\ paused' = newPaused
    /\ StepIf(paused' # paused)
    /\ UNCHANGED <<owner, isProvider, cooldownSeconds, lastSubmissionTime,
                   lastDecryptionRequestTime, currentBatchId, isBatchOpen,
                   batchTotalEncryptedComputeUnits, batchTotalEncryptedLendAmounts,
                   decryptionContexts, library, history, now>>

setCooldownSeconds(sender, newCooldownSeconds) ==
    /\ onlyOwner(sender)
    /\ cooldownSeconds' = newCooldownSeconds
    /\ StepIf(cooldownSeconds' # cooldownSeconds)
    /\ UNCHANGED <<owner, isProvider, paused, lastSubmissionTime,
                   lastDecryptionRequestTime, currentBatchId, isBatchOpen,
                   batchTotalEncryptedComputeUnits, batchTotalEncryptedLendAmounts,
                   decryptionContexts, library, history, now>>

\* ------------------------------------------------------- batch registry
\* openBatch without the whenNotPaused modifier
openBatchErrorNoPause(sender) ==
    IF ~onlyOwner(sender) THEN "NotOwner"
    ELSE "ok"

openBatchError(sender) ==
    IF ~onlyOwner(sender) THEN "NotOwner"
    ELSE IF paused THEN "Paused"
    ELSE "ok"

\* openBatch without the increment
newBatchIdStale == currentBatchId

\* currentBatchId++ (line 102): the id the new batch gets
newBatchId == currentBatchId + 1

\* openBatch marking the id before the increment (isBatchOpen[currentBatchId++])
openBatchPostIncrement(sender) ==
    /\ openBatchError(sender) = "ok"
    /\ currentBatchId < MaxBatch
    /\ currentBatchId' = newBatchId
    /\ isBatchOpen' = [isBatchOpen EXCEPT ![currentBatchId] = TRUE]
    /\ Step
    /\ UNCHANGED <<owner, isProvider, paused, cooldownSeconds, lastSubmissionTime,
                   lastDecryptionRequestTime,
                   batchTotalEncryptedComputeUnits, batchTotalEncryptedLendAmounts,
                   decryptionContexts, library, history, now>>

openBatch(sender) ==
    /\ openBatchError(sender) = "ok"
    /\ currentBatchId < MaxBatch
    /\ currentBatchId' = newBatchId
    /\ isBatchOpen' = [isBatchOpen EXCEPT ![newBatchId] = TRUE]
    /\ Step
    /\ UNCHANGED <<owner, isProvider, paused, cooldownSeconds, lastSubmissionTime,
                   lastDecryptionRequestTime,
                   batchTotalEncryptedComputeUnits, batchTotalEncryptedLendAmounts,
                   decryptionContexts, library, history, now>>

closeBatchError(sender, batchId) ==
    IF ~onlyOwner(sender) THEN "NotOwner"
    ELSE IF ~isBatchOpen[batchId] THEN "BatchClosedOrNonExistent"
    ELSE "ok"

\* closeBatch that also clears the batch's accumulators
closeBatchClearing(sender, batchId) ==
    /\ closeBatchError(sender, batchId) = "ok"
    /\ isBatchOpen' = [isBatchOpen EXCEPT ![batchId] = FALSE]
    /\ batchTotalEncryptedComputeUnits' =
           [batchTotalEncryptedComputeUnits EXCEPT ![batchId] = ZeroHandle]
    /\ batchTotalEncryptedLendAmounts' =
           [batchTotalEncryptedLendAmounts EXCEPT ![batchId] = ZeroHandle]
    /\ closedBatches' = closedBatches \cup {batchId}
    /\ Step
    /\ UNCHANGED <<owner, isProvider, paused, cooldownSeconds, lastSubmissionTime,
                   lastDecryptionRequestTime, currentBatchId,
                   decryptionContexts, library, submissions, requestedWhenClosed,
                   completed, now>>

closeBatch(sender, batchId) ==
    /\ closeBatchError(sender, batchId) = "ok"
    /\ isBatchOpen' = [isBatchOpen EXCEPT ![batchId] = FALSE]
    /\ closedBatches' = closedBatches \cup {batchId}
    /\ Step
    /\ UNCHANGED <<owner, isProvider, paused, cooldownSeconds, lastSubmissionTime,
                   lastDecryptionRequestTime, currentBatchId,
                   batchTotalEncryptedComputeUnits, batchTotalEncryptedLendAmounts,
                   decryptionContexts, library, submissions, requestedWhenClosed,
                   completed, now>>

\* --------------------------------------------------- aggregation engine
\* modifier onlyProvider
onlyProvider(sender) == isProvider[sender]

\* the submission gates without the membership check
submitErrorNoProviderGate(sender, batchId) ==
    IF paused THEN "Paused"
    ELSE IF lastSubmissionTime[sender] + cooldownSeconds > UintMax THEN "Panic"
    ELSE IF now < lastSubmissionTime[sender] + cooldownSeconds THEN "CooldownActive"
    ELSE IF ~isBatchOpen[batchId] THEN "BatchClosedOrNonExistent"
    ELSE "ok"

\* the submission gates without the isBatchOpen check
submitErrorNoOpenGate(sender, batchId) ==
    IF ~onlyProvider(sender) THEN "NotProvider"
    ELSE IF paused THEN "Paused"
    ELSE IF lastSubmissionTime[sender] + cooldownSeconds > UintMax THEN "Panic"
    ELSE IF now < lastSubmissionTime[sender] + cooldownSeconds THEN "CooldownActive"
    ELSE "ok"

submitError(sender, batchId) ==
    IF ~onlyProvider(sender) THEN "NotProvider"
    ELSE IF paused THEN "Paused"
    ELSE IF lastSubmissionTime[sender] + cooldownSeconds > UintMax THEN "Panic"
    ELSE IF now < lastSubmissionTime[sender] + cooldownSeconds THEN "CooldownActive"
    ELSE IF ~isBatchOpen[batchId] THEN "BatchClosedOrNonExistent"
    ELSE "ok"

\* The stored word of an accumulator read as a number and truncated to the
\* encrypted width: 0 for the zero word; otherwise the low bits of a hash, which
\* the hash fixes and which are unrelated to the plaintext behind the handle
\* (here: 1 for an odd id, 2^width - 1 for an even one).
WordOf(h) == IF h = ZeroHandle THEN 0 ELSE IF h.id % 2 = 1 THEN 1 ELSE Modulus - 1

\* line 128/129: FHE.toBytes32(input.add(FHE.asEuint32(stored word)))
foldInto(word, input, id) == FHE_add(input, FHE_asEuint32(word), id)

\* the submission without line 123: the timestamp is never written
submitWithoutTimestamp(sender, batchId, input) ==
    /\ submitError(sender, batchId) = "ok"
    /\ handleCount < 2 * MaxSubmissions
    /\ batchTotalEncryptedComputeUnits' =
           [batchTotalEncryptedComputeUnits EXCEPT ![batchId] =
               foldInto(WordOf(@), EncryptedInput(input[1]), handleCount + 1)]
    /\ batchTotalEncryptedLendAmounts' =
           [batchTotalEncryptedLendAmounts EXCEPT ![batchId] =
               foldInto(WordOf(@), EncryptedInput(input[2]), handleCount + 2)]
    /\ handleCount' = handleCount + 2
    /\ submissions' = Append(submissions,
           [provider |-> sender, batchId |-> batchId,
            computeUnits |-> input[1], lendAmount |-> input[2]])
    /\ Step
    /\ UNCHANGED <<owner, isProvider, paused, cooldownSeconds, lastSubmissionTime,
                   lastDecryptionRequestTime, currentBatchId, isBatchOpen,
                   decryptionContexts, counterRequest, requestedHandles,
                   closedBatches, requestedWhenClosed, completed, now>>

submitEncryptedComputeResource(sender, batchId, input) ==
    /\ submitError(sender, batchId) = "ok"
    /\ handleCount < 2 * MaxSubmissions
    /\ lastSubmissionTime' = [lastSubmissionTime EXCEPT ![sender] = now]
    /\ batchTotalEncryptedComputeUnits' =
           [batchTotalEncryptedComputeUnits EXCEPT ![batchId] =
               foldInto(WordOf(@), EncryptedInput(input[1]), handleCount + 1)]
    /\ batchTotalEncryptedLendAmounts' =
           [batchTotalEncryptedLendAmounts EXCEPT ![batchId] =
               foldInto(WordOf(@), EncryptedInput(input[2]), handleCount + 2)]
    /\ handleCount' = handleCount + 2
    /\ submissions' = Append(submissions,
           [provider |-> sender, batchId |-> batchId,
            computeUnits |-> input[1], lendAmount |-> input[2]])
    /\ Step
    /\ UNCHANGED <<owner, isProvider, paused, cooldownSeconds,
                   lastDecryptionRequestTime, currentBatchId, isBatchOpen,
                   decryptionContexts, counterRequest, requestedHandles,
                   closedBatches, requestedWhenClosed, completed, now>>

\* ------------------------------------------------- decryption coordinator
\* the request gates with one clock for all callers: the latest request of anyone
requestErrorGlobalClock(sender, batchId) ==
    LET latest == CHOOSE t \in {lastDecryptionRequestTime[a] : a \in Addresses} :
                      \A a \in Addresses : lastDecryptionRequestTime[a] <= t IN
    IF ~onlyOwner(sender) THEN "NotOwner"
    ELSE IF paused THEN "Paused"
    ELSE IF latest + cooldownSeconds > UintMax THEN "Panic"
    ELSE IF now < latest + cooldownSeconds THEN "CooldownActive"
    ELSE IF isBatchOpen[batchId] THEN "BatchClosedOrNonExistent"
    ELSE "ok"

\* the request gates with a check that the batch has no request yet
requestErrorOnePerBatch(sender, batchId) ==
    IF ~onlyOwner(sender) THEN "NotOwner"
    ELSE IF paused THEN "Paused"
    ELSE IF lastDecryptionRequestTime[sender] + cooldownSeconds > UintMax THEN "Panic"
    ELSE IF now < lastDecryptionRequestTime[sender] + cooldownSeconds THEN "CooldownActive"
    ELSE IF isBatchOpen[batchId] THEN "BatchClosedOrNonExistent"
    ELSE IF \E r \in IssuedRequests : decryptionContexts[r].batchId = batchId
         THEN "AlreadyRequested"
    ELSE "ok"

\* the request gates reading the submission clock in the cooldown check
requestErrorSharedClock(sender, batchId) ==
    IF ~onlyOwner(sender) THEN "NotOwner"
    ELSE IF paused THEN "Paused"
    ELSE IF lastSubmissionTime[sender] + cooldownSeconds > UintMax THEN "Panic"
    ELSE IF now < lastSubmissionTime[sender] + cooldownSeconds THEN "CooldownActive"
    ELSE IF isBatchOpen[batchId] THEN "BatchClosedOrNonExistent"
    ELSE "ok"

\* the request gates without the cooldown check
requestErrorNoCooldown(sender, batchId) ==
    IF ~onlyOwner(sender) THEN "NotOwner"
    ELSE IF paused THEN "Paused"
    ELSE IF isBatchOpen[batchId] THEN "BatchClosedOrNonExistent"
    ELSE "ok"

\* the request gates with the batch check of closeBatch (line 108) in place of line 138
requestErrorNotOpenGate(sender, batchId) ==
    IF ~onlyOwner(sender) THEN "NotOwner"
    ELSE IF paused THEN "Paused"
    ELSE IF lastDecryptionRequestTime[sender] + cooldownSeconds > UintMax THEN "Panic"
    ELSE IF now < lastDecryptionRequestTime[sender] + cooldownSeconds THEN "CooldownActive"
    ELSE IF ~isBatchOpen[batchId] THEN "BatchClosedOrNonExistent"
    ELSE "ok"

requestError(sender, batchId) ==
    IF ~onlyOwner(sender) THEN "NotOwner"
    ELSE IF paused THEN "Paused"
    ELSE IF lastDecryptionRequestTime[sender] + cooldownSeconds > UintMax THEN "Panic"
    ELSE IF now < lastDecryptionRequestTime[sender] + cooldownSeconds THEN "CooldownActive"
    ELSE IF isBatchOpen[batchId] THEN "BatchClosedOrNonExistent"
    ELSE "ok"

currentCiphertexts(batchId) ==
    <<batchTotalEncryptedComputeUnits[batchId], batchTotalEncryptedLendAmounts[batchId]>>

requestBatchDecryption(sender, batchId) ==
    /\ requestError(sender, batchId) = "ok"
    /\ counterRequest < MaxRequests
    /\ lastDecryptionRequestTime' = [lastDecryptionRequestTime EXCEPT ![sender] = now]
    /\ counterRequest' = counterRequest + 1
    /\ requestedHandles' =
                [requestedHandles EXCEPT ![counterRequest] = currentCiphertexts(batchId)]
    /\ decryptionContexts' =
                [decryptionContexts EXCEPT ![counterRequest] =
                    [batchId |-> batchId,
                     stateHash |-> hashCiphertexts(currentCiphertexts(batchId)),
                     processed |-> FALSE]]
    /\ requestedWhenClosed' =
                IF batchId \in closedBatches
                THEN requestedWhenClosed \cup {counterRequest} ELSE requestedWhenClosed
    /\ Step
    /\ UNCHANGED <<owner, isProvider, paused, cooldownSeconds, lastSubmissionTime,
                   currentBatchId, isBatchOpen,
                   batchTotalEncryptedComputeUnits, batchTotalEncryptedLendAmounts,
                   handleCount, submissions, closedBatches, completed, now>>

\* the callback's gates without the replay check
callbackErrorNoReplay(requestId, cleartexts, proof) ==
    LET batchId == decryptionContexts[requestId].batchId IN
    IF ~isBatchOpen[batchId] /\ batchTotalEncryptedComputeUnits[batchId] = ZeroHandle
         THEN "InvalidBatchId"
    ELSE IF hashCiphertexts(currentCiphertexts(batchId)) # decryptionContexts[requestId].stateHash
         THEN "StateMismatch"
    ELSE IF ~checkSignatures(requestId, cleartexts, proof) THEN "InvalidProof"
    ELSE "ok"

\* the callback's gates without the commitment check
callbackErrorNoStateCheck(requestId, cleartexts, proof) ==
    LET batchId == decryptionContexts[requestId].batchId IN
    IF decryptionContexts[requestId].processed THEN "ReplayDetected"
    ELSE IF ~isBatchOpen[batchId] /\ batchTotalEncryptedComputeUnits[batchId] = ZeroHandle
         THEN "InvalidBatchId"
    ELSE IF ~checkSignatures(requestId, cleartexts, proof) THEN "InvalidProof"
    ELSE "ok"

\* the callback's gates without the signature check
callbackErrorNoProofCheck(requestId, cleartexts, proof) ==
    LET batchId == decryptionContexts[requestId].batchId IN
    IF decryptionContexts[requestId].processed THEN "ReplayDetected"
    ELSE IF ~isBatchOpen[batchId] /\ batchTotalEncryptedComputeUnits[batchId] = ZeroHandle
         THEN "InvalidBatchId"
    ELSE IF hashCiphertexts(currentCiphertexts(batchId)) # decryptionContexts[requestId].stateHash
         THEN "StateMismatch"
    ELSE "ok"

\* the callback's gates without the batch-validity check
callbackErrorNoBatchGate(requestId, cleartexts, proof) ==
    LET batchId == decryptionContexts[requestId].batchId IN
    IF decryptionContexts[requestId].processed THEN "ReplayDetected"
    ELSE IF hashCiphertexts(currentCiphertexts(batchId)) # decryptionContexts[requestId].stateHash
         THEN "StateMismatch"
    ELSE IF ~checkSignatures(requestId, cleartexts, proof) THEN "InvalidProof"
    ELSE "ok"

\* the callback's gates with the replay check after the commitment check
callbackErrorReplayLate(requestId, cleartexts, proof) ==
    LET batchId == decryptionContexts[requestId].batchId IN
    IF ~isBatchOpen[batchId] /\ batchTotalEncryptedComputeUnits[batchId] = ZeroHandle
         THEN "InvalidBatchId"
    ELSE IF hashCiphertexts(currentCiphertexts(batchId)) # decryptionContexts[requestId].stateHash
         THEN "StateMismatch"
    ELSE IF decryptionContexts[requestId].processed THEN "ReplayDetected"
    ELSE IF ~checkSignatures(requestId, cleartexts, proof) THEN "InvalidProof"
    ELSE "ok"

\* the callback with the whenNotPaused modifier of the request path
callbackErrorWhenNotPaused(requestId, cleartexts, proof) ==
    LET batchId == decryptionContexts[requestId].batchId IN
    IF paused THEN "Paused"
    ELSE IF decryptionContexts[requestId].processed THEN "ReplayDetected"
    ELSE IF ~isBatchOpen[batchId] /\ batchTotalEncryptedComputeUnits[batchId] = ZeroHandle
         THEN "InvalidBatchId"
    ELSE IF hashCiphertexts(currentCiphertexts(batchId)) # decryptionContexts[requestId].stateHash
         THEN "StateMismatch"
    ELSE IF ~checkSignatures(requestId, cleartexts, proof) THEN "InvalidProof"
    ELSE "ok"

callbackError(requestId, cleartexts, proof) ==
    LET batchId == decryptionContexts[requestId].batchId IN
    IF decryptionContexts[requestId].processed THEN "ReplayDetected"
    ELSE IF ~isBatchOpen[batchId] /\ batchTotalEncryptedComputeUnits[batchId] = ZeroHandle
         THEN "InvalidBatchId"
    ELSE IF hashCiphertexts(currentCiphertexts(batchId)) # decryptionContexts[requestId].stateHash
         THEN "StateMismatch"
    ELSE IF ~checkSignatures(requestId, cleartexts, proof) THEN "InvalidProof"
    ELSE "ok"

\* both totals read from the first word of the payload
decodeTotalsFirstWord(cleartexts) == <<cleartexts[1], cleartexts[1]>>

\* abi.decode of the first word, mload of the second
decodeTotals(cleartexts) == <<cleartexts[1], cleartexts[2]>>

completedEvent(requestId, cleartexts) ==
    [name |-> "DecryptionCompleted", requestId |-> requestId,
     batchId |-> decryptionContexts[requestId].batchId,
     totalComputeUnits |-> decodeTotals(cleartexts)[1],
     totalLendAmount |-> decodeTotals(cleartexts)[2]]

\* the callback deleting the context instead of marking it processed
myCallbackDeleting(requestId, cleartexts, proof) ==
    /\ callbackError(requestId, cleartexts, proof) = "ok"
    /\ decryptionContexts' = [decryptionContexts EXCEPT ![requestId] = EmptyContext]
    /\ completed' = Append(completed, completedEvent(requestId, cleartexts))
    /\ Step
    /\ UNCHANGED <<owner, isProvider, paused, cooldownSeconds, lastSubmissionTime,
                   lastDecryptionRequestTime, currentBatchId, isBatchOpen,
                   batchTotalEncryptedComputeUnits, batchTotalEncryptedLendAmounts,
                   library, submissions, closedBatches, requestedWhenClosed, now>>

myCallback(requestId, cleartexts, proof) ==
    /\ callbackError(requestId, cleartexts, proof) = "ok"
    /\ decryptionContexts' = [decryptionContexts EXCEPT ![requestId].processed = TRUE]
    /\ completed' = Append(completed, completedEvent(requestId, cleartexts))
    /\ Step
    /\ UNCHANGED <<owner, isProvider, paused, cooldownSeconds, lastSubmissionTime,
                   lastDecryptionRequestTime, currentBatchId, isBatchOpen,
                   batchTotalEncryptedComputeUnits, batchTotalEncryptedLendAmounts,
                   library, submissions, closedBatches, requestedWhenClosed, now>>

\* the proofs and cleartexts a caller of the callback can present
KnownProofs == {KmsProof(r) : r \in IssuedRequests}
OfferedCleartexts == {p.cleartexts : p \in KnownProofs} \cup ClaimedCleartexts
OfferedProofs == KnownProofs \cup {ForgedProof}

\* ------------------------------------------------------------------ time
Tick ==
    /\ now < MaxTime
    /\ now' = now + 1
    /\ Step
    /\ UNCHANGED <<storage, library, history>>

\* ------------------------------------------------------------------ Next
Next ==
    \/ \E s \in Callers, a \in Addresses : transferOwnership(s, a)
    \/ \E s \in Callers, p \in Callers : addProvider(s, p)
    \/ \E s \in Callers, p \in Callers : removeProvider(s, p)
    \/ \E s \in Callers, b \in BOOLEAN : setPaused(s, b)
    \/ \E s \in Callers, c \in CooldownChoices : setCooldownSeconds(s, c)
    \/ \E s \in Callers : openBatch(s)
    \/ \E s \in Callers, b \in BatchIds : closeBatch(s, b)
    \/ \E s \in Callers, b \in BatchIds, i \in Inputs :
            submitEncryptedComputeResource(s, b, i)
    \/ \E s \in Callers, b \in BatchIds : requestBatchDecryption(s, b)
    \/ \E r \in RequestIds, c \in OfferedCleartexts, p \in OfferedProofs :
            myCallback(r, c, p)
    \/ Tick

Spec == Init /\ [][Next]_vars

\* ================================================================ claims
\* the DecryptionCompleted events emitted for a request id / for a batch
EventsOfRequest(r) == {i \in 1 .. Len(completed) : completed[i].requestId = r}
Resolved(b) == \E i \in 1 .. Len(completed) : completed[i].batchId = b

\* the submissions made into a batch, and the arithmetic sums of their plaintexts
SubmissionsInto(b) == {i \in 1 .. Len(submissions) : submissions[i].batchId = b}
HasSubmission(b) == SubmissionsInto(b) # {}

RECURSIVE SumUnits(_, _)
SumUnits(b, n) ==
    IF n = 0 THEN 0
    ELSE SumUnits(b, n - 1)
         + (IF submissions[n].batchId = b THEN submissions[n].computeUnits ELSE 0)

RECURSIVE SumLend(_, _)
SumLend(b, n) ==
    IF n = 0 THEN 0
    ELSE SumLend(b, n - 1)
         + (IF submissions[n].batchId = b THEN submissions[n].lendAmount ELSE 0)

\* the callback the decryption service itself delivers for an issued request
ServiceError(r) == callbackError(r, KmsProof(r).cleartexts, KmsProof(r))

Unresolved(r) == r \in IssuedRequests /\ ~decryptionContexts[r].processed

\* the two gates of the callback that precede the proof check both pass
EarlierGatesPass(r) ==
    LET b == decryptionContexts[r].batchId IN
    /\ isBatchOpen[b] \/ batchTotalEncryptedComputeUnits[b] # ZeroHandle
    /\ hashCiphertexts(currentCiphertexts(b)) = decryptionContexts[r].stateHash

\* C1: for every request id at most one callback ever succeeds: at most one
\* DecryptionCompleted event exists per request id, and once a request is
\* processed every callback for it, whatever cleartexts and proof it carries
\* (the service's own valid proof included), reverts with ReplayDetected.
C1_AtMostOneResolution ==
    \A r \in RequestIds :
        /\ Cardinality(EventsOfRequest(r)) <= 1
        /\ decryptionContexts[r].processed =>
              /\ Cardinality(EventsOfRequest(r)) = 1
              /\ \A c \in OfferedCleartexts, p \in OfferedProofs :
                    callbackError(r, c, p) = "ReplayDetected"

\* a request was resolved, and the valid callback that resolved it is offered again
C1_Witness ==
    \E r \in IssuedRequests :
        /\ decryptionContexts[r].processed
        /\ EventsOfRequest(r) # {}
        /\ checkSignatures(r, KmsProof(r).cleartexts, KmsProof(r))

\* C2 (as stated): a callback for an unresolved request whose proof does not
\* authenticate the cleartexts reverts with InvalidProof (here already for the
\* requests taken on a batch that closeBatch had closed).
C2_Original ==
    \A r \in requestedWhenClosed : Unresolved(r) =>
        \A c \in OfferedCleartexts, p \in OfferedProofs :
            ~checkSignatures(r, c, p) => callbackError(r, c, p) = "InvalidProof"

\* C2 (amended): a callback for an unresolved request whose proof does not
\* authenticate the cleartexts always reverts; the error is InvalidProof exactly
\* when the batch-validity and commitment gates pass, and InvalidBatchId or
\* StateMismatch otherwise; whenever it is InvalidProof the request is still
\* unresolved and the service's callback with the valid proof succeeds.
C2_Amended ==
    \A r \in IssuedRequests : Unresolved(r) =>
        \A c \in OfferedCleartexts, p \in OfferedProofs :
            ~checkSignatures(r, c, p) =>
                /\ callbackError(r, c, p) \in {"InvalidBatchId", "StateMismatch", "InvalidProof"}
                /\ callbackError(r, c, p) = "InvalidProof" <=> EarlierGatesPass(r)
                /\ callbackError(r, c, p) = "InvalidProof" => ServiceError(r) = "ok"

\* an unresolved request for which a forged proof is rejected with InvalidProof
C2_Witness ==
    \E r \in IssuedRequests :
        /\ Unresolved(r)
        /\ \E c \in ClaimedCleartexts : callbackError(r, c, ForgedProof) = "InvalidProof"
        /\ ServiceError(r) = "ok"

\* C3: a callback for an unresolved request succeeds only if the stored
\* commitment equals the hash of the batch's current accumulators; if the
\* batch's accumulator pair differs from the pair handed to the decryption
\* service at request time, every callback (valid proof included) reverts with
\* StateMismatch.
C3_CommitmentGate ==
    \A r \in IssuedRequests : Unresolved(r) =>
        LET b == decryptionContexts[r].batchId IN
        \A c \in OfferedCleartexts, p \in OfferedProofs :
            /\ callbackError(r, c, p) = "ok" =>
                  decryptionContexts[r].stateHash = hashCiphertexts(currentCiphertexts(b))
            /\ currentCiphertexts(b) # requestedHandles[r] =>
                  callbackError(r, c, p) = "StateMismatch"

\* an unresolved request whose batch has moved on: the service's valid callback
\* is rejected with StateMismatch
C3_Witness ==
    \E r \in IssuedRequests :
        /\ Unresolved(r)
        /\ currentCiphertexts(decryptionContexts[r].batchId) # requestedHandles[r]
        /\ checkSignatures(r, KmsProof(r).cleartexts, KmsProof(r))
        /\ ServiceError(r) = "StateMismatch"

\* C4 (as stated): for every request recorded on a closed batch, whether or
\* not the batch received a submission, the callback with the valid proof
\* succeeds as long as the request is unresolved.
C4_Original ==
    \A r \in requestedWhenClosed : Unresolved(r) => ServiceError(r) = "ok"

\* C4 (amended): for every request recorded on a batch that closeBatch closed
\* and that received at least one submission, the callback with the valid proof
\* succeeds as long as the request is unresolved, and once it is processed
\* exactly one DecryptionCompleted event carries its request id, its batch id
\* and the two totals of the valid payload; for a closed batch without any
\* submission the valid callback reverts with InvalidBatchId.
C4_Amended ==
    \A r \in requestedWhenClosed :
        LET b == decryptionContexts[r].batchId IN
        /\ Unresolved(r) /\ HasSubmission(b) => ServiceError(r) = "ok"
        /\ Unresolved(r) /\ ~HasSubmission(b) => ServiceError(r) = "InvalidBatchId"
        /\ decryptionContexts[r].processed =>
              \E i \in 1 .. Len(completed) :
                  /\ EventsOfRequest(r) = {i}
                  /\ completed[i].batchId = b
                  /\ completed[i].totalComputeUnits = KmsProof(r).cleartexts[1]
                  /\ completed[i].totalLendAmount = KmsProof(r).cleartexts[2]

\* a request taken on a closed batch with a submission has been resolved
C4_Witness ==
    \E r \in requestedWhenClosed :
        /\ HasSubmission(decryptionContexts[r].batchId)
        /\ decryptionContexts[r].processed
        /\ EventsOfRequest(r) # {}

\* C5: the decryption of each accumulator of every batch equals the arithmetic
\* sum of the plaintexts submitted into that batch (zero for an untouched batch).
C5_Homomorphism ==
    \A b \in BatchIds :
        /\ Decrypt(batchTotalEncryptedComputeUnits[b]) = SumUnits(b, Len(submissions))
        /\ Decrypt(batchTotalEncryptedLendAmounts[b]) = SumLend(b, Len(submissions))

\* the end-to-end scenario of C6 has run up to the resolution of its request
ScenarioResolved ==
    /\ submissions =
          << [provider |-> "A", batchId |-> 1, computeUnits |-> 10, lendAmount |-> 5],
             [provider |-> "B", batchId |-> 1, computeUnits |-> 7, lendAmount |-> 3] >>
    /\ closedBatches = {1}
    /\ requestedWhenClosed = {0}
    /\ decryptionContexts[0].batchId = 1
    /\ decryptionContexts[0].processed

\* C6: after batch 1 took (10, 5) from provider A and (7, 3) from provider B,
\* was closed and had its decryption requested, the resolution of that request
\* emits exactly one DecryptionCompleted event, carrying batchId 1 and the
\* totals 17 and 8.
C6_EndToEnd ==
    ScenarioResolved =>
        completed = << [name |-> "DecryptionCompleted", requestId |-> 0, batchId |-> 1,
                   totalComputeUnits |-> 17, totalLendAmount |-> 8] >>

\* C7: every recorded decryption request was taken on a batch that openBatch
\* had opened and closeBatch had closed.
C7_OnlyClosedBatches == IssuedRequests \subseteq requestedWhenClosed

\* C8: once a DecryptionCompleted event exists for batch b, no step adds a
\* submission into b or changes either accumulator of b.
C8_ResolvedTerminal ==
    [][\A b \in BatchIds : Resolved(b) =>
          /\ batchTotalEncryptedComputeUnits'[b] = batchTotalEncryptedComputeUnits[b]
          /\ batchTotalEncryptedLendAmounts'[b] = batchTotalEncryptedLendAmounts[b]
          /\ \A i \in 1 .. Len(submissions') :
                i > Len(submissions) => submissions'[i].batchId # b]_vars

\* C9: a batch that closeBatch has closed is not open in any later state.
C9_ClosedNeverReopens == \A b \in closedBatches : ~isBatchOpen[b]

\* a batch was closed and another batch was opened after it
C9_Witness ==
    \E b \in closedBatches : currentBatchId > b /\ isBatchOpen[currentBatchId]

\* the caller passes every gate of a submission that precedes the batch gate
PassesEarlierSubmitGates(sender) ==
    /\ onlyProvider(sender)
    /\ ~paused
    /\ now >= lastSubmissionTime[sender] + cooldownSeconds

\* C10: a submission into a batch that is not open never succeeds, and reverts
\* with BatchClosedOrNonExistent when the caller passes the earlier gates; no
\* step changes an accumulator of a batch that closeBatch has closed; and the
\* commitment of every request taken on such a batch equals the hash of the
\* batch's accumulators in every later state.
C10_ClosedBatchFrozen ==
    /\ [](\A s \in Callers, b \in BatchIds : ~isBatchOpen[b] =>
            /\ submitError(s, b) # "ok"
            /\ PassesEarlierSubmitGates(s) => submitError(s, b) = "BatchClosedOrNonExistent")
    /\ [][\A b \in closedBatches :
            /\ batchTotalEncryptedComputeUnits'[b] = batchTotalEncryptedComputeUnits[b]
            /\ batchTotalEncryptedLendAmounts'[b] = batchTotalEncryptedLendAmounts[b]]_vars
    /\ [](\A r \in requestedWhenClosed :
            decryptionContexts[r].stateHash =
                hashCiphertexts(currentCiphertexts(decryptionContexts[r].batchId)))

\* a request was taken on a closed batch that holds a submission, and a provider
\* who passes the earlier gates is turned away from that batch
C10_Witness ==
    \E r \in requestedWhenClosed, s \in Callers :
        /\ HasSubmission(decryptionContexts[r].batchId)
        /\ PassesEarlierSubmitGates(s)
        /\ submitError(s, decryptionContexts[r].batchId) = "BatchClosedOrNonExistent"

\* the submissions a caller has made
SubmissionsBy(p) == {i \in 1 .. Len(submissions) : submissions[i].provider = p}

\* C11: membership is checked at call time.  A successful removeProvider(p)
\* leaves p a non-member; while p is not a member every submission by p reverts
\* with NotProvider whatever the pause flag, the cooldown and the batch are, no
\* step records a submission by p or moves p's submission timestamp, and p
\* becomes a member again only in an addProvider(p) call.
C11_RevocationImmediate ==
    /\ [][\A s \in Callers, p \in Callers : removeProvider(s, p) => ~isProvider'[p]]_vars
    /\ [](\A p \in Callers : ~isProvider[p] =>
            \A b \in BatchIds : submitError(p, b) = "NotProvider")
    /\ [][\A p \in Callers : ~isProvider[p] =>
            /\ SubmissionsBy(p)' = SubmissionsBy(p)
            /\ lastSubmissionTime'[p] = lastSubmissionTime[p]
            /\ isProvider'[p] => \E s \in Callers : addProvider(s, p)]_vars

\* a provider who has submitted was removed, and the submission that would have
\* succeeded a moment earlier (unpaused, cooldown elapsed, batch open) is refused
C11_Witness ==
    \E p \in Callers, b \in BatchIds :
        /\ SubmissionsBy(p) # {}
        /\ ~isProvider[p]
        /\ submitErrorNoProviderGate(p, b) = "ok"
        /\ submitError(p, b) = "NotProvider"

\* C12: for a caller c whose last successful decryption request was at time T
\* (lastDecryptionRequestTime[c] = T > 0, every request so far taken on a batch
\* that closeBatch had closed), who is the owner while the system is unpaused, a
\* request on a closed batch reverts with CooldownActive at every time earlier
\* than T + cooldownSeconds and returns at every time at or after
\* T + cooldownSeconds.
C12_RequestCooldown ==
    \A c \in Callers, b \in closedBatches :
        (/\ lastDecryptionRequestTime[c] > 0
         /\ IssuedRequests \subseteq requestedWhenClosed
         /\ onlyOwner(c) /\ ~paused /\ ~isBatchOpen[b]) =>
            IF now < lastDecryptionRequestTime[c] + cooldownSeconds
            THEN requestError(c, b) = "CooldownActive"
            ELSE requestError(c, b) = "ok"

\* the caller passes every gate of a decryption request that precedes the batch gate
PassesEarlierRequestGates(sender) ==
    /\ onlyOwner(sender)
    /\ ~paused
    /\ now >= lastDecryptionRequestTime[sender] + cooldownSeconds

\* the context requestBatchDecryption records for a batch in the current state
RecordedContext(b) ==
    [batchId |-> b, stateHash |-> hashCiphertexts(currentCiphertexts(b)), processed |-> FALSE]

\* C13: a decryption request by the owner (unpaused, cooldown elapsed) on a batch
\* that is open reverts with BatchClosedOrNonExistent, and no step records a
\* request for a batch that is open; on a batch that closeBatch has closed the
\* same call returns, and the step that takes a request records, under the fresh
\* request id, processed = false, the batch id and the hash of the batch's
\* current accumulator pair, and touches no other context.
C13_OpenThenClosed ==
    /\ [](\A c \in Callers, b \in BatchIds : PassesEarlierRequestGates(c) =>
            /\ isBatchOpen[b] => requestError(c, b) = "BatchClosedOrNonExistent"
            /\ b \in closedBatches => requestError(c, b) = "ok")
    /\ [][counterRequest' # counterRequest =>
            LET r == counterRequest
                b == decryptionContexts'[r].batchId IN
            /\ counterRequest' = r + 1
            /\ ~isBatchOpen[b]
            /\ decryptionContexts'[r] = RecordedContext(b)
            /\ \A q \in RequestIds \ {r} : decryptionContexts'[q] = decryptionContexts[q]]_vars
    /\ [][decryptionContexts' # decryptionContexts /\ counterRequest' = counterRequest =>
            completed' # completed]_vars

\* a request was refused while its batch was open and taken after closeBatch:
\* the batch holds a submission (so it was open), is closed, and the request
\* recorded for it carries the commitment to its accumulators
C13_Witness ==
    \E r \in requestedWhenClosed :
        LET b == decryptionContexts[r].batchId IN
        /\ HasSubmission(b)
        /\ b \in closedBatches
        /\ decryptionContexts[r] = RecordedContext(b)

\* C14: while paused is set, every submission by a provider, and every openBatch
\* and decryption request by the owner, reverts with Paused; no step taken while
\* paused records a submission, changes an accumulator or a cooldown timestamp,
\* opens a batch or takes a decryption request; and the flag is cleared only by
\* a setPaused(false) call.
C14_PauseGate ==
    /\ [](paused => \A s \in Callers :
            /\ onlyProvider(s) => \A b \in BatchIds : submitError(s, b) = "Paused"
            /\ onlyOwner(s) =>
                  /\ openBatchError(s) = "Paused"
                  /\ \A b \in BatchIds : requestError(s, b) = "Paused")
    /\ [][paused =>
            /\ UNCHANGED <<submissions, batchTotalEncryptedComputeUnits,
                           batchTotalEncryptedLendAmounts, lastSubmissionTime,
                           lastDecryptionRequestTime, currentBatchId, counterRequest,
                           requestedHandles, handleCount>>
            /\ \A b \in BatchIds : isBatchOpen'[b] => isBatchOpen[b]
            /\ ~paused' => \E s \in Callers : setPaused(s, FALSE)]_vars

\* the system is paused in a state whose gated calls would otherwise return: an
\* open batch, a provider and an owner whose cooldowns have elapsed
C14_Witness ==
    /\ paused
    /\ \E s \in Callers, o \in Callers, b \in BatchIds, c \in closedBatches :
          /\ isBatchOpen[b]
          /\ submitError(s, b) = "Paused"
          /\ now >= lastSubmissionTime[s] + cooldownSeconds
          /\ openBatchError(o) = "Paused"
          /\ requestError(o, c) = "Paused"
          /\ now >= lastDecryptionRequestTime[o] + cooldownSeconds

\* C15: the callback is not gated by pause.  While paused, the service's callback
\* for an unresolved request whose commitment matches the batch's accumulators
\* (the batch open or holding a submission) returns, and no callback reverts
\* with Paused; and a step that sets or clears the pause flag changes the
\* outcome of no callback, whatever request id, cleartexts and proof it carries.
C15_CallbackIgnoresPause ==
    /\ [](paused =>
            /\ \A r \in IssuedRequests :
                  LET b == decryptionContexts[r].batchId IN
                  (/\ Unresolved(r)
                   /\ decryptionContexts[r].stateHash = hashCiphertexts(currentCiphertexts(b))
                   /\ isBatchOpen[b] \/ HasSubmission(b)) => ServiceError(r) = "ok"
            /\ \A r \in RequestIds, c \in OfferedCleartexts, p \in OfferedProofs :
                  callbackError(r, c, p) # "Paused")
    /\ [][paused' # paused =>
            \A r \in RequestIds, c \in OfferedCleartexts, p \in OfferedProofs :
                callbackError(r, c, p)' = callbackError(r, c, p)]_vars

\* the system is paused while a request taken on a closed batch with a
\* submission is unresolved, and the service's callback for it returns
C15_Witness ==
    /\ paused
    /\ \E r \in requestedWhenClosed :
          /\ Unresolved(r)
          /\ HasSubmission(decryptionContexts[r].batchId)
          /\ ServiceError(r) = "ok"

\* the effects of one returning submission, all of them, from a state in which
\* none of its gates fails
SubmissionReturned ==
    /\ Len(submissions') = Len(submissions) + 1
    /\ SubSeq(submissions', 1, Len(submissions)) = submissions
    /\ LET e == submissions'[Len(submissions')] IN
        /\ isProvider[e.provider]
        /\ ~paused
        /\ now >= lastSubmissionTime[e.provider] + cooldownSeconds
        /\ isBatchOpen[e.batchId]
        /\ lastSubmissionTime' = [lastSubmissionTime EXCEPT ![e.provider] = now]
        /\ \A b \in BatchIds \ {e.batchId} : currentCiphertexts(b)' = currentCiphertexts(b)
        /\ handleCount' = handleCount + 2
    /\ UNCHANGED <<lastDecryptionRequestTime, decryptionContexts, counterRequest,
                   requestedHandles, completed>>

\* the effects of one returning decryption request, all of them, from a state
\* in which none of its gates fails
RequestReturned ==
    /\ counterRequest' = counterRequest + 1
    /\ \E c \in Callers :
          /\ onlyOwner(c)
          /\ ~paused
          /\ now >= lastDecryptionRequestTime[c] + cooldownSeconds
          /\ lastDecryptionRequestTime' = [lastDecryptionRequestTime EXCEPT ![c] = now]
    /\ LET b == decryptionContexts'[counterRequest].batchId IN
          /\ ~isBatchOpen[b]
          /\ decryptionContexts' =
                [decryptionContexts EXCEPT ![counterRequest] = RecordedContext(b)]
          /\ requestedHandles' =
                [requestedHandles EXCEPT ![counterRequest] = currentCiphertexts(b)]
    /\ UNCHANGED <<lastSubmissionTime, batchTotalEncryptedComputeUnits,
                   batchTotalEncryptedLendAmounts, handleCount, submissions, completed>>

\* the effects of one returning callback, all of them, from a state in which
\* none of its gates fails
CallbackReturned ==
    /\ Len(completed') = Len(completed) + 1
    /\ SubSeq(completed', 1, Len(completed)) = completed
    /\ LET e == completed'[Len(completed')]
           r == e.requestId
           b == decryptionContexts[r].batchId IN
        /\ r \in IssuedRequests
        /\ ~decryptionContexts[r].processed
        /\ isBatchOpen[b] \/ batchTotalEncryptedComputeUnits[b] # ZeroHandle
        /\ decryptionContexts[r].stateHash = hashCiphertexts(currentCiphertexts(b))
        /\ e.batchId = b
        /\ <<e.totalComputeUnits, e.totalLendAmount>> = KmsProof(r).cleartexts
        /\ decryptionContexts' = [decryptionContexts EXCEPT ![r].processed = TRUE]
    /\ UNCHANGED <<lastSubmissionTime, lastDecryptionRequestTime,
                   batchTotalEncryptedComputeUnits, batchTotalEncryptedLendAmounts,
                   counterRequest, requestedHandles, handleCount, submissions>>

\* C16: a call that reverts persists nothing and emits nothing.  Whatever a step
\* changes in the state of the aggregation engine or of the decryption
\* coordinator, or adds to the events, is the complete effect of one call none
\* of whose gates failed in the state it was made in: a submission timestamp or
\* an accumulator changes only together with one recorded submission by a
\* provider, unpaused, after the cooldown, into an open batch; a request
\* timestamp, the request counter or a new context only together with one
\* request by the owner, unpaused, after the cooldown, on a batch that is not
\* open; a processed flag or a DecryptionCompleted event only together, for an
\* unprocessed request whose commitment matches, carrying the cleartexts the
\* proof authenticates; and every such step leaves owner, provider set, pause
\* flag, cooldown, currentBatchId and the open flags as they were.
C16_AllOrNothing ==
    [][(\/ lastSubmissionTime' # lastSubmissionTime
        \/ lastDecryptionRequestTime' # lastDecryptionRequestTime
        \/ batchTotalEncryptedComputeUnits' # batchTotalEncryptedComputeUnits
        \/ batchTotalEncryptedLendAmounts' # batchTotalEncryptedLendAmounts
        \/ decryptionContexts' # decryptionContexts
        \/ library' # library
        \/ submissions' # submissions
        \/ completed' # completed) =>
            /\ SubmissionReturned \/ RequestReturned \/ CallbackReturned
            /\ UNCHANGED <<owner, isProvider, paused, cooldownSeconds,
                           currentBatchId, isBatchOpen, closedBatches, now>>]_vars

\* a submission and a callback have returned, and in the state reached a
\* submission reverts at the cooldown or batch gate and a callback with
\* ReplayDetected
C16_Witness ==
    /\ submissions # <<>> /\ completed # <<>>
    /\ \E s \in Callers, b \in BatchIds :
          submitError(s, b) \in {"CooldownActive", "BatchClosedOrNonExistent"}
    /\ \E r \in IssuedRequests : ServiceError(r) = "ReplayDetected"

\* some call of an owner-only function by the current owner makes this step
OwnerCallReturns ==
    /\ owner \in Callers
    /\ \/ \E a \in Addresses : transferOwnership(owner, a)
       \/ \E p \in Callers : addProvider(owner, p)
       \/ \E p \in Callers : removeProvider(owner, p)
       \/ \E v \in BOOLEAN : setPaused(owner, v)
       \/ \E c \in CooldownChoices : setCooldownSeconds(owner, c)
       \/ openBatch(owner)
       \/ \E b \in BatchIds : closeBatch(owner, b)
       \/ \E b \in BatchIds : requestBatchDecryption(owner, b)

\* C17: for every caller other than the current owner, each of the eight
\* owner-only functions reverts with NotOwner (the modifier is their first
\* gate), whatever the arguments; and every step that changes the owner, the
\* provider set, the pause flag, the cooldown, currentBatchId, an open flag or
\* records a decryption request is a call made by the current owner.
C17_OwnerOnly ==
    /\ [](\A s \in Callers : s # owner =>
            /\ ~onlyOwner(s)
            /\ openBatchError(s) = "NotOwner"
            /\ \A b \in BatchIds :
                  /\ closeBatchError(s, b) = "NotOwner"
                  /\ requestError(s, b) = "NotOwner"
            /\ \A a \in Addresses : ~ENABLED transferOwnership(s, a)
            /\ \A p \in Callers : ~ENABLED addProvider(s, p) /\ ~ENABLED removeProvider(s, p)
            /\ \A v \in BOOLEAN : ~ENABLED setPaused(s, v)
            /\ \A c \in CooldownChoices : ~ENABLED setCooldownSeconds(s, c))
    /\ [][(\/ owner' # owner
            \/ isProvider' # isProvider
            \/ paused' # paused
            \/ cooldownSeconds' # cooldownSeconds
            \/ currentBatchId' # currentBatchId
            \/ isBatchOpen' # isBatchOpen
            \/ counterRequest' # counterRequest) => OwnerCallReturns]_vars

\* ownership was handed over and the new owner has used the owner-only
\* functions, while the previous owner is turned away from them
C17_Witness ==
    /\ owner \in Callers \ {Deployer}
    /\ closedBatches # {}
    /\ \E p \in Callers : isProvider[p]
    /\ ~onlyOwner(Deployer)
    /\ openBatchError(Deployer) = "NotOwner"

\* C18: the owner is not the null address in any reachable state.
C18_OwnerNeverNull == owner # NullAddress

\* C19: batch ids are allocated in sequence from 1.  currentBatchId never
\* decreases and grows by one at a time; the step that grows it to k opens batch
\* k and no other, and no other step opens a batch; every open batch b has
\* 1 <= b <= currentBatchId; and batch 0 is never open, receives no submission
\* and keeps both accumulators at the zero word.
C19_SequentialIds ==
    /\ [](/\ \A b \in BatchIds : isBatchOpen[b] => 1 <= b /\ b <= currentBatchId
          /\ ~isBatchOpen[0]
          /\ ~HasSubmission(0)
          /\ currentCiphertexts(0) = <<ZeroHandle, ZeroHandle>>)
    /\ [][/\ currentBatchId' \in {currentBatchId, currentBatchId + 1}
          /\ currentBatchId' = currentBatchId + 1 =>
                isBatchOpen' = [isBatchOpen EXCEPT ![currentBatchId + 1] = TRUE]
          /\ \A b \in BatchIds : ~isBatchOpen[b] /\ isBatchOpen'[b] =>
                b = currentBatchId + 1 /\ currentBatchId' = b]_vars

\* openBatch has returned twice: batch 1 was opened and closed, batch 2 is open
C19_Witness ==
    /\ currentBatchId = 2
    /\ 1 \in closedBatches
    /\ isBatchOpen[2]
    /\ HasSubmission(1)

\* the owner-only functions whose gates are modelled by an error operator let
\* the caller past the owner check
PassesOwnerCheck(s) ==
    /\ onlyOwner(s)
    /\ openBatchError(s) # "NotOwner"
    /\ \A b \in BatchIds : closeBatchError(s, b) # "NotOwner" /\ requestError(s, b) # "NotOwner"

\* ... turn the caller away at the owner check
FailsOwnerCheck(s) ==
    /\ ~onlyOwner(s)
    /\ openBatchError(s) = "NotOwner"
    /\ \A b \in BatchIds : closeBatchError(s, b) = "NotOwner" /\ requestError(s, b) = "NotOwner"

\* C20: a transfer of ownership takes effect in the step of the call.  A step
\* that changes the owner is a transferOwnership call by the previous owner, and
\* in the state right after it the previous owner fails the owner check of
\* every owner-only function while the new owner (when it is a caller) passes
\* it; in every state the stored owner, and nobody else, passes the check, so
\* this stays so until ownership is transferred again.
C20_TransferImmediate ==
    /\ [][owner' # owner =>
            \E old \in Callers, new \in Addresses :
                /\ old = owner /\ new = owner'
                /\ transferOwnership(old, new)
                /\ FailsOwnerCheck(old)'
                /\ new \in Callers => PassesOwnerCheck(new)']_vars
    /\ [](\A s \in Callers : IF s = owner THEN PassesOwnerCheck(s) ELSE FailsOwnerCheck(s))

\* the deployer has transferred ownership to another caller, who has taken a
\* decryption request since (the deployer never has) and can open a batch,
\* while the deployer is turned away
C20_Witness ==
    /\ owner \in Callers \ {Deployer}
    /\ openBatchError(owner) = "ok"
    /\ FailsOwnerCheck(Deployer)
    /\ lastDecryptionRequestTime[Deployer] = 0
    /\ lastDecryptionRequestTime[owner] > 0

\* C21: addProvider and removeProvider are idempotent.  addProvider(p) for a
\* member and removeProvider(p) for a non-member emit no event and cannot
\* change the state; and a returning addProvider(p) (removeProvider(p)) leaves p
\* a member (a non-member), so that the same call made again right after it
\* emits nothing: once and twice give the same state and the same events, one
\* event when p's membership changed and none otherwise.
C21_Idempotent ==
    /\ [](\A s \in Callers, p \in Callers :
            /\ isProvider[p] =>
                  /\ addProviderEvents(p) = << >>
                  /\ ~ENABLED (addProvider(s, p) /\ vars' # vars)
            /\ ~isProvider[p] =>
                  /\ removeProviderEvents(p) = << >>
                  /\ ~ENABLED (removeProvider(s, p) /\ vars' # vars))
    /\ [][\A s \in Callers, p \in Callers :
            /\ addProvider(s, p) =>
                  /\ isProvider'[p]
                  /\ Len(addProviderEvents(p)) = (IF isProvider[p] THEN 0 ELSE 1)
                  /\ addProviderEvents(p)' = << >>
            /\ removeProvider(s, p) =>
                  /\ ~isProvider'[p]
                  /\ Len(removeProviderEvents(p)) = (IF isProvider[p] THEN 1 ELSE 0)
                  /\ removeProviderEvents(p)' = << >>]_vars

\* one caller is a member, another was a member (it has submitted) and has been
\* removed, and the owner can repeat either call
C21_Witness ==
    /\ owner \in Callers
    /\ \E p \in Callers, q \in Callers :
          /\ isProvider[p] /\ addProviderEvents(p) = << >>
          /\ ~isProvider[q] /\ SubmissionsBy(q) # {} /\ removeProviderEvents(q) = << >>

\* the step records one more submission, made by x
NewSubmissionBy(x) ==
    /\ Len(submissions') = Len(submissions) + 1
    /\ submissions'[Len(submissions')].provider = x

\* C22: only a returning gated call advances a cooldown clock.  A step changes
\* lastSubmissionTime[x] only if it records a submission by x into a batch for
\* which none of x's submission gates fails, and every step that records a
\* submission by x leaves lastSubmissionTime[x] = block.timestamp; a step
\* changes lastDecryptionRequestTime[x] only if it takes a decryption request
\* for a batch for which none of x's request gates fails, and every step that
\* takes a request leaves the owner's lastDecryptionRequestTime = block.timestamp.
C22_ClockAdvancesOnSuccess ==
    [][\A x \in Addresses :
        /\ lastSubmissionTime'[x] # lastSubmissionTime[x] => NewSubmissionBy(x)
        /\ NewSubmissionBy(x) =>
              /\ x \in Callers
              /\ submitError(x, submissions'[Len(submissions')].batchId) = "ok"
              /\ lastSubmissionTime'[x] = now
        /\ lastDecryptionRequestTime'[x] # lastDecryptionRequestTime[x] =>
              counterRequest' = counterRequest + 1 /\ x = owner
        /\ counterRequest' = counterRequest + 1 /\ x = owner =>
              /\ x \in Callers
              /\ requestError(x, decryptionContexts'[counterRequest].batchId) = "ok"
              /\ lastDecryptionRequestTime'[x] = now]_vars

\* a submission and a decryption request have returned after the first second,
\* their callers' clocks stand at the time of the call, and a further
\* submission by the same provider reverts
C22_Witness ==
    \E x \in Callers, y \in Callers, b \in BatchIds :
        /\ SubmissionsBy(x) # {}
        /\ lastSubmissionTime[x] > 1
        /\ lastDecryptionRequestTime[y] > 1
        /\ submitError(x, b) \notin {"ok", "NotProvider"}

\* C23: the two kinds of action have independent clocks.  A step that records a
\* submission by x changes no submission timestamp but x's and no request
\* timestamp at all; a step that takes a decryption request changes no request
\* timestamp but the owner's and no submission timestamp at all; every other
\* step changes no timestamp; and the cooldown gate of each kind reads the
\* caller's timestamp of that kind only, so a caller whose clock of one kind has
\* elapsed is never turned away with CooldownActive from that kind of action.
C23_IndependentClocks ==
    /\ [][/\ \A x \in Addresses : NewSubmissionBy(x) =>
                /\ lastDecryptionRequestTime' = lastDecryptionRequestTime
                /\ \A y \in Addresses \ {x} : lastSubmissionTime'[y] = lastSubmissionTime[y]
          /\ counterRequest' # counterRequest =>
                /\ lastSubmissionTime' = lastSubmissionTime
                /\ \A y \in Addresses \ {owner} :
                      lastDecryptionRequestTime'[y] = lastDecryptionRequestTime[y]
          /\ submissions' = submissions => lastSubmissionTime' = lastSubmissionTime
          /\ counterRequest' = counterRequest =>
                lastDecryptionRequestTime' = lastDecryptionRequestTime]_vars
    /\ [](\A x \in Callers, b \in BatchIds :
            /\ now >= lastSubmissionTime[x] + cooldownSeconds =>
                  submitError(x, b) # "CooldownActive"
            /\ now >= lastDecryptionRequestTime[x] + cooldownSeconds =>
                  requestError(x, b) # "CooldownActive")

\* a caller who is owner and provider is inside the cooldown of one kind of
\* action (a call of that kind has returned) while the other kind returns
C23_Witness ==
    \E x \in Callers, b \in BatchIds, c \in closedBatches :
        /\ onlyOwner(x) /\ onlyProvider(x)
        /\ isBatchOpen[b]
        /\ \/ /\ lastDecryptionRequestTime[x] > 0
              /\ requestError(x, c) = "CooldownActive"
              /\ submitError(x, b) = "ok"
           \/ /\ lastSubmissionTime[x] > 0
              /\ submitError(x, b) = "CooldownActive"
              /\ requestError(x, c) = "ok"

\* C24: the replay check is the first gate of the callback.  For a processed
\* request every callback reverts with ReplayDetected, whatever cleartexts and
\* proof it carries: also when the proof does not authenticate them, when the
\* batch's accumulators have moved away from the commitment, and when the batch
\* is closed and empty.
C24_ReplayFirst ==
    \A r \in RequestIds : decryptionContexts[r].processed =>
        LET b == decryptionContexts[r].batchId IN
        /\ \A c \in OfferedCleartexts \cup ClaimedCleartexts :
              callbackError(r, c, ForgedProof) = "ReplayDetected"
        /\ hashCiphertexts(currentCiphertexts(b)) # decryptionContexts[r].stateHash =>
              ServiceError(r) = "ReplayDetected"
        /\ \A c \in OfferedCleartexts, p \in OfferedProofs :
              callbackError(r, c, p) \notin
                  {"ok", "InvalidBatchId", "StateMismatch", "InvalidProof"}

\* a request is processed, its batch's accumulators have since moved away from
\* its commitment, and a callback for it carries a proof the KMS has not signed
C24_Witness ==
    \E r \in IssuedRequests, c \in ClaimedCleartexts :
        /\ decryptionContexts[r].processed
        /\ currentCiphertexts(decryptionContexts[r].batchId) # requestedHandles[r]
        /\ ~checkSignatures(r, c, ForgedProof)
        /\ callbackError(r, c, ForgedProof) = "ReplayDetected"

\* the step records one more submission, made into batch b
NewSubmissionInto(b) ==
    /\ Len(submissions') = Len(submissions) + 1
    /\ submissions'[Len(submissions')].batchId = b

\* C25: the accumulators of a batch change only in a returning submission into
\* that batch.  A step that changes an accumulator of b records a submission
\* into b, which was open; and a step that records none (openBatch, closeBatch,
\* a decryption request, the callback, the access-control functions, a clock
\* tick) or one into another batch leaves both accumulators of b as they were.
C25_AccumulatorWriter ==
    [][\A b \in BatchIds :
        /\ currentCiphertexts(b)' # currentCiphertexts(b) =>
              NewSubmissionInto(b) /\ isBatchOpen[b]
        /\ ~NewSubmissionInto(b) => currentCiphertexts(b)' = currentCiphertexts(b)
        /\ (\/ isBatchOpen' # isBatchOpen
            \/ counterRequest' # counterRequest
            \/ completed' # completed
            \/ <<owner, isProvider, paused, cooldownSeconds>>'
                   # <<owner, isProvider, paused, cooldownSeconds>>) =>
              currentCiphertexts(b)' = currentCiphertexts(b)]_vars

\* a batch took a submission, was closed, had its decryption requested and
\* resolved, and still holds the accumulators handed to the service, while
\* another batch has been opened
C25_Witness ==
    \E r \in requestedWhenClosed :
        LET b == decryptionContexts[r].batchId IN
        /\ HasSubmission(b)
        /\ decryptionContexts[r].processed
        /\ currentCiphertexts(b) = requestedHandles[r]
        /\ currentBatchId > b

\* the step emits one more DecryptionCompleted event, for request r
NewCompletionOf(r) ==
    /\ Len(completed') = Len(completed) + 1
    /\ completed'[Len(completed')].requestId = r

\* C26: the processed flag of a request changes only in a returning callback
\* for that request id, from false to true: a processed request stays
\* processed, a step sets the flag of r exactly when it emits the
\* DecryptionCompleted event of r, and a request for which no callback returns
\* stays unprocessed; an issued request stays issued, and the batch id and the
\* state hash recorded for it never change.
C26_ProcessedFlag ==
    [][\A r \in RequestIds :
        /\ decryptionContexts[r].processed => decryptionContexts'[r].processed
        /\ NewCompletionOf(r) <=>
              ~decryptionContexts[r].processed /\ decryptionContexts'[r].processed
        /\ NewCompletionOf(r) => r \in IssuedRequests
        /\ r \in IssuedRequests =>
              /\ r \in IssuedRequests'
              /\ decryptionContexts'[r].batchId = decryptionContexts[r].batchId
              /\ decryptionContexts'[r].stateHash = decryptionContexts[r].stateHash]_vars

\* of two issued requests one has been processed and the other has not, and
\* both still carry what was recorded for them
C26_Witness ==
    \E r \in IssuedRequests, q \in IssuedRequests :
        /\ decryptionContexts[r].processed
        /\ EventsOfRequest(r) # {}
        /\ ~decryptionContexts[q].processed
        /\ EventsOfRequest(q) = {}
        /\ decryptionContexts[r].stateHash = hashCiphertexts(requestedHandles[r])
        /\ decryptionContexts[q].stateHash = hashCiphertexts(requestedHandles[q])

\* C27: a callback for a request id that no decryption request has recorded
\* never returns: its context is the zero context, whose batch 0 is not open and
\* has no data, so it reverts with InvalidBatchId whatever cleartexts and proof
\* it carries (a proof the KMS signed for another request included) and no
\* context of such an id is ever marked processed; every DecryptionCompleted
\* event carries the id of an issued request and the batch id recorded for it.
C27_UnknownRequest ==
    /\ \A r \in RequestIds \ IssuedRequests :
          /\ decryptionContexts[r] = EmptyContext
          /\ \A c \in OfferedCleartexts, p \in OfferedProofs :
                callbackError(r, c, p) = "InvalidBatchId"
    /\ \A i \in 1 .. Len(completed) :
          /\ completed[i].requestId \in IssuedRequests
          /\ completed[i].batchId = decryptionContexts[completed[i].requestId].batchId

\* a recorded request has been resolved, and the proof the KMS signed for it is
\* turned away when presented under a request id that was never recorded
C27_Witness ==
    \E q \in IssuedRequests, r \in RequestIds \ IssuedRequests :
        /\ decryptionContexts[q].processed
        /\ EventsOfRequest(q) # {}
        /\ callbackError(r, KmsProof(q).cleartexts, KmsProof(q)) = "InvalidBatchId"

\* the requests recorded for a batch
RequestsFor(b) == {r \in IssuedRequests : decryptionContexts[r].batchId = b}

\* C28: a decryption request does not look at the requests its batch already
\* has.  For a batch that closeBatch has closed, a request by an owner who
\* passes the earlier gates returns however many requests, pending or
\* processed, the batch has; all requests taken on it since carry the same
\* commitment; and each unprocessed one of them (the batch holding a
\* submission) is resolved by the service's callback whether or not another
\* has been resolved, with one event per request.
C28_ManyRequestsPerBatch ==
    \A b \in closedBatches :
        /\ \A c \in Callers : PassesEarlierRequestGates(c) => requestError(c, b) = "ok"
        /\ \A r \in RequestsFor(b) \cap requestedWhenClosed :
              /\ \A q \in RequestsFor(b) \cap requestedWhenClosed :
                    decryptionContexts[q].stateHash = decryptionContexts[r].stateHash
              /\ Unresolved(r) /\ HasSubmission(b) => ServiceError(r) = "ok"
              /\ Cardinality(EventsOfRequest(r)) =
                    (IF decryptionContexts[r].processed THEN 1 ELSE 0)

\* two requests were taken on the same closed batch and both have been
\* resolved: two DecryptionCompleted events carry that batch's id
C28_Witness ==
    \E b \in closedBatches, r \in requestedWhenClosed, q \in requestedWhenClosed :
        /\ r # q
        /\ {r, q} \subseteq RequestsFor(b)
        /\ decryptionContexts[r].processed /\ decryptionContexts[q].processed
        /\ Cardinality({i \in 1 .. Len(completed) : completed[i].batchId = b}) = 2

\* caller a has made a decryption request and its cooldown has not elapsed
InsideRequestWindow(a) ==
    /\ lastDecryptionRequestTime[a] > 0
    /\ now < lastDecryptionRequestTime[a] + cooldownSeconds

\* C29: the request cooldown belongs to the caller, not to the owner role or
\* to the batch.  While a former owner a is inside its request window, a request
\* by the current owner n, whose own clock has elapsed, is never turned away
\* with CooldownActive or Panic: it reverts only at the batch gate, and returns
\* for every batch that closeBatch has closed, the batch a's request was taken
\* on included.
C29_CooldownPerIdentity ==
    \A a \in Callers, n \in Callers :
        (/\ a # n
         /\ InsideRequestWindow(a)
         /\ onlyOwner(n) /\ ~paused
         /\ now >= lastDecryptionRequestTime[n] + cooldownSeconds) =>
            /\ \A b \in BatchIds :
                  requestError(n, b) = (IF isBatchOpen[b] THEN "BatchClosedOrNonExistent" ELSE "ok")
            /\ \A b \in closedBatches : requestError(n, b) = "ok"

\* a made a request and handed ownership to n, and n has made a request at the
\* current time while a is still inside its cooldown window: two requests
\* returned less than one cooldown apart
C29_Witness ==
    \E a \in Callers, n \in Callers :
        /\ a # n
        /\ InsideRequestWindow(a)
        /\ onlyOwner(n)
        /\ lastDecryptionRequestTime[n] = now
        /\ now - lastDecryptionRequestTime[a] < cooldownSeconds
        /\ cooldownSeconds < UintMax
        /\ counterRequest = 2
        /\ IssuedRequests \subseteq requestedWhenClosed

\* openBatch leaves every existing batch alone, closeBatch(b) changes the open
\* flag of b only, and a submission into b changes the accumulators of b only
BatchFrame ==
    /\ currentBatchId' # currentBatchId =>
          /\ \A b \in BatchIds \ {currentBatchId'} : isBatchOpen'[b] = isBatchOpen[b]
          /\ \A b \in BatchIds : currentCiphertexts(b)' = currentCiphertexts(b)
    /\ \A b \in BatchIds : isBatchOpen[b] /\ ~isBatchOpen'[b] =>
          /\ \A c \in BatchIds \ {b} : isBatchOpen'[c] = isBatchOpen[c]
          /\ \A c \in BatchIds : currentCiphertexts(c)' = currentCiphertexts(c)
          /\ currentBatchId' = currentBatchId
    /\ \A b \in BatchIds : NewSubmissionInto(b) =>
          /\ \A c \in BatchIds \ {b} : currentCiphertexts(c)' = currentCiphertexts(c)
          /\ isBatchOpen' = isBatchOpen
          /\ currentBatchId' = currentBatchId

\* C30: batches are independent: openBatch neither closes nor alters an
\* existing batch, closeBatch(b) changes only the open flag of b, a submission
\* into b changes only the accumulators of b, and so in every state the two
\* accumulators of each batch hold exactly the submissions made into that
\* batch: they decrypt to the sums of those submissions' plaintexts.
C30_BatchesIndependent ==
    /\ [][BatchFrame]_vars
    /\ [](\A b \in BatchIds :
            /\ Decrypt(batchTotalEncryptedComputeUnits[b]) = SumUnits(b, Len(submissions)) % Modulus
            /\ Decrypt(batchTotalEncryptedLendAmounts[b]) = SumLend(b, Len(submissions)) % Modulus)

====
